---- MODULE Spec2Model ----
(***************************************************************************)
(* pgmpy CanonicalFactor (src/pgmpy/factors/continuous/CanonicalFactor.py) *)
(* as a state machine over a heap of factor objects and a store of numpy   *)
(* arrays.                                                                 *)
(*                                                                         *)
(* Numbers.  Every quantity is an exact dyadic rational kept as an         *)
(* integer numerator over a fixed denominator:                             *)
(*     K entries       in units of 1                                       *)
(*     h entries, y    in units of 1/4                                     *)
(*     g               in units of 1/32                                    *)
(* so h = [1, 4, -1] is <<4, 16, -4>>, y = 0.25 is 1 and g = -2 is -64.    *)
(* The products the code forms stay on these grids (K*y: 1/4, h^T*y and    *)
(* y^T*K*y: 1/16, halved or doubled into 1/32), and all of them are exact  *)
(* in float64 at the magnitudes used here.                                 *)
(*                                                                         *)
(* Positions in sequences are 1-based here and 0-based in the source.      *)
(***************************************************************************)
EXTENDS Integers, Sequences, FiniteSets, TLC

(* ------------------------------ bounds --------------------------------- *)

\* calls made in one behaviour, the constructor call included
MaxCalls == 3

(* ------------------------- numpy arrays -------------------------------- *)

\* A 2-d ndarray is a record of its shape (r, c) and its entries e[i][j].

\* an n-by-1 array with the entries of the sequence s
Column(s, n) == [r |-> n, c |-> 1, e |-> [i \in 1..n |-> << s[i] >>]]

FromRows(rows) ==
  [r |-> Len(rows), c |-> IF Len(rows) = 0 THEN 0 ELSE Len(rows[1]), e |-> rows]

EmptyMat == [r |-> 0, c |-> 0, e |-> << >>]

\* A[np.ix_(rows, cols)]
Ix(A, rows, cols) ==
  [r |-> Len(rows), c |-> Len(cols),
   e |-> [i \in 1..Len(rows) |-> [j \in 1..Len(cols) |-> A.e[rows[i]][cols[j]]]]]

\* A[rows] (integer-array indexing of the first axis)
Take(A, rows) ==
  [r |-> Len(rows), c |-> A.c,
   e |-> [i \in 1..Len(rows) |-> A.e[rows[i]]]]

\* A.T
Transpose(A) ==
  [r |-> A.c, c |-> A.r, e |-> [i \in 1..A.c |-> [j \in 1..A.r |-> A.e[j][i]]]]

RECURSIVE SumTo(_, _)
SumTo(f, n) == IF n = 0 THEN 0 ELSE f[n] + SumTo(f, n - 1)

\* np.dot(A, B) of two 2-d arrays with A.c = B.r
Dot(A, B) ==
  [r |-> A.r, c |-> B.c,
   e |-> [i \in 1..A.r |-> [j \in 1..B.c |->
            SumTo([k \in 1..A.c |-> A.e[i][k] * B.e[k][j]], A.c)]]]

\* A - B of two arrays of one shape
Minus(A, B) ==
  [r |-> A.r, c |-> A.c,
   e |-> [i \in 1..A.r |-> [j \in 1..A.c |-> A.e[i][j] - B.e[i][j]]]]

\* A with entry (i, j) set to v
SetEntry(A, i, j, v) == [A EXCEPT !.e[i][j] = v]

DropAt(s, k) == [i \in 1..(Len(s) - 1) |-> IF i < k THEN s[i] ELSE s[i + 1]]

\* the determinant of a square array (np.linalg.inv fails exactly when it is 0)
RECURSIVE Det(_)
Det(A) ==
  IF A.r = 0 THEN 1
  ELSE LET minor(k) == [r |-> A.r - 1, c |-> A.c - 1,
                        e |-> [i \in 1..(A.r - 1) |-> DropAt(A.e[i + 1], k)]]
           term(k) == (IF k % 2 = 1 THEN 1 ELSE -1) * A.e[1][k] * Det(minor(k))
       IN SumTo([k \in 1..A.c |-> term(k)], A.c)

(* --------------------------- Python values ----------------------------- *)

\* an exception: its type and the source line that raises it; NoErr: none raised
Err(type, line) == [type |-> type, line |-> line]
NoErr == Err("none", 0)

\* list.index(x): the first position of x (raises ValueError when x is absent)
Index(s, x) == CHOOSE i \in 1..Len(s) : s[i] = x /\ \A j \in 1..(i - 1) : s[j] # x

Has(s, x) == \E i \in 1..Len(s) : s[i] = x

\* Python's order on (index, value) tuples
PairLess(p, q) == p[1] < q[1] \/ (p[1] = q[1] /\ p[2] < q[2])

RECURSIVE Insert(_, _)
Insert(s, p) ==
  IF Len(s) = 0 THEN << p >>
  ELSE IF PairLess(p, s[1]) THEN << p >> \o s
  ELSE << s[1] >> \o Insert(Tail(s), p)

\* sorted(s) for a list of (index, value) tuples
RECURSIVE Sorted(_)
Sorted(s) == IF Len(s) = 0 THEN << >> ELSE Insert(Sorted(Tail(s)), s[1])

(* --------------------------- the density ------------------------------- *)

\* pdf is None
NoPdf == [kind |-> "none", by |-> 0, variables |-> << >>, K |-> EmptyMat, h |-> EmptyMat, g |-> 0]

\* a density function the caller passed to the constructor
UserPdf == [kind |-> "user", by |-> 0, variables |-> << >>, K |-> EmptyMat, h |-> EmptyMat, g |-> 0]

\* JointGaussianDistribution(scope, inv(K) . h, inv(K)).pdf, materialised by
\* factor `by`: the density is determined by the scope, K and h it was computed
\* from (g is recorded with them, it is not read)
JgdPdf(by, variables, K, h, g) ==
  [kind |-> "jgd", by |-> by, variables |-> variables, K |-> K, h |-> h, g |-> g]

(* --------------------------- construction ------------------------------ *)

\* The h argument of the constructor: a flat sequence of numbers, an m-by-1
\* column or a 1-by-m row, with its numbers in row-major order.
HArg(shape, data) == [shape |-> shape, data |-> data]

\* len(h): the extent of the first axis
HLen(h) == IF h.shape = "row" THEN 1 ELSE Len(h.data)

\* h.size
HSize(h) == Len(h.data)

\* np.asarray(np.reshape(h, (n, 1)), dtype=float), for an h of size n
ReshapeH(h, n) == Column(h.data, n)

\* the exception of the raise statement at lines 86-88: its argument reads
\* self.covariance, which a CanonicalFactor does not have
KShapeErr(n, K) == Err("AttributeError", 88)

\* the check of the h argument, line 77
HLenOk(h, n) == HLen(h) = n

\* what CanonicalFactor.__init__ raises
InitErr(variables, K, h) ==
  LET no_of_var == Len(variables) IN
  IF ~HLenOk(h, no_of_var) THEN Err("ValueError", 78)
  ELSE IF HSize(h) # no_of_var THEN Err("ValueError", 81)
  ELSE IF << K.r, K.c >> # << no_of_var, no_of_var >> THEN KShapeErr(no_of_var, K)
  ELSE NoErr

(* ------------------------------ reduce --------------------------------- *)

\* The `values` argument: `kind` is the Python type of the object ("list",
\* "tuple", or "other" for anything that is not a sequence), `items` its
\* elements.  An element is a tuple of `n` components whose first two are
\* var and val (n = 2: a pair; n = 3: a triple), or with n = 0 a bare
\* number, which is not iterable.
Item(var, val, n) == [var |-> var, val |-> val, n |-> n]
Values(kind, items) == [kind |-> kind, items |-> items]

IsPairs(values) == \A i \in 1..Len(values.items) : values.items[i].n = 2

\* the isinstance check of line 243
IsAccepted(values) == values.kind = "list"

\* unpacking `for var, value in values` at line 249: the first element that
\* does not unpack into two raises
UnpackErr(values) ==
  IF IsPairs(values) THEN NoErr
  ELSE LET i == CHOOSE k \in 1..Len(values.items) :
                   values.items[k].n # 2 /\ \A m \in 1..(k - 1) : values.items[m].n = 2
       IN IF values.items[i].n = 0 THEN Err("TypeError", 249) ELSE Err("ValueError", 249)

\* var_to_reduce, line 249
VarToReduce(values) == [i \in 1..Len(values.items) |-> values.items[i].var]

\* self.variables.index(var) at line 255 for a var that is not in the scope
LookupErr(variables, values) ==
  IF \A i \in 1..Len(values.items) : Has(variables, values.items[i].var)
  THEN NoErr ELSE Err("ValueError", 255)

\* what reduce() raises
ReduceErr(variables, values) ==
  IF ~IsAccepted(values) THEN Err("TypeError", 244)
  ELSE IF UnpackErr(values) # NoErr THEN UnpackErr(values)
  ELSE LookupErr(variables, values)

\* index_to_keep, lines 252-253
IndexToKeep(variables, values) ==
  LET kept == SelectSeq(variables, LAMBDA var : ~Has(VarToReduce(values), var))
  IN [i \in 1..Len(kept) |-> Index(variables, kept[i])]

\* index_to_reduce, line 255: in the order of `values`
IndexToReduce(variables, values) ==
  [i \in 1..Len(values.items) |-> Index(variables, values.items[i].var)]

\* y, lines 264-266: the values sorted by (index in the scope, value)
Y(variables, values) ==
  LET s == Sorted([i \in 1..Len(values.items) |->
                     << Index(variables, values.items[i].var), values.items[i].val >>])
  IN Column([i \in 1..Len(s) |-> s[i][2]], Len(IndexToReduce(variables, values)))

\* line 268
ReduceVariables(variables, values) ==
  LET index_to_keep == IndexToKeep(variables, values)
  IN [i \in 1..Len(index_to_keep) |-> variables[index_to_keep[i]]]

\* line 269
ReduceK_Reduced(variables, K, values) ==
  Ix(K, IndexToReduce(variables, values), IndexToReduce(variables, values))
ReduceK(variables, K, values) ==
  Ix(K, IndexToKeep(variables, values), IndexToKeep(variables, values))

\* line 270
ReduceH_Plus(variables, K, h, values) ==
  LET index_to_keep == IndexToKeep(variables, values)
      index_to_reduce == IndexToReduce(variables, values)
      K_i_j == Ix(K, index_to_keep, index_to_reduce)
      h_i == Take(h, index_to_keep)
      d == Dot(K_i_j, Y(variables, values))
  IN [r |-> h_i.r, c |-> h_i.c,
      e |-> [i \in 1..h_i.r |-> [j \in 1..h_i.c |-> h_i.e[i][j] + d.e[i][j]]]]
ReduceH(variables, K, h, values) ==
  LET index_to_keep == IndexToKeep(variables, values)
      index_to_reduce == IndexToReduce(variables, values)
      K_i_j == Ix(K, index_to_keep, index_to_reduce)
      h_i == Take(h, index_to_keep)
  IN Minus(h_i, Dot(K_i_j, Y(variables, values)))

\* line 271, in units of 1/32: h_j.T . y and y.T . K_j_j . y are in 1/16
ReduceG_NoHalf(variables, K, h, g, values) ==
  LET index_to_reduce == IndexToReduce(variables, values)
      K_j_j == Ix(K, index_to_reduce, index_to_reduce)
      h_j == Take(h, index_to_reduce)
      y == Y(variables, values)
  IN g + 2 * Dot(Transpose(h_j), y).e[1][1]
       - 2 * Dot(Dot(Transpose(y), K_j_j), y).e[1][1]
ReduceG(variables, K, h, g, values) ==
  LET index_to_reduce == IndexToReduce(variables, values)
      K_j_j == Ix(K, index_to_reduce, index_to_reduce)
      h_j == Take(h, index_to_reduce)
      y == Y(variables, values)
  IN g + 2 * Dot(Transpose(h_j), y).e[1][1]
       - Dot(Dot(Transpose(y), K_j_j), y).e[1][1]

\* the (scope', K', h', g') of lines 268-271 for a factor with parameters v
ReduceOf(v, values) ==
  [variables |-> ReduceVariables(v.variables, values),
   K |-> ReduceK(v.variables, v.K, values),
   h |-> ReduceH(v.variables, v.K, v.h, values),
   g |-> ReduceG(v.variables, v.K, v.h, v.g, values)]

(* ------------------------------ inputs --------------------------------- *)

\* the variable names used in scopes and in `values`
VarPool == {"X1", "X2", "X3"}

\* Constructor arguments (variables, K, g).  Entry 1 is the example of the
\* reduce() docstring, 2 the one of __init__ and copy() (a singular K); 3 has
\* a K that is not symmetric, 4 a single variable, 5 a K of the wrong shape.
Catalog ==
  << [variables |-> << "X1", "X2", "X3" >>,
      K |-> FromRows(<< << 1, -1, 0 >>, << -1, 4, -2 >>, << 0, -2, 4 >> >>), g |-> -64],
     [variables |-> << "X1", "X2" >>,
      K |-> FromRows(<< << 1, -1 >>, << -1, 1 >> >>), g |-> -96],
     [variables |-> << "X3", "X1" >>,
      K |-> FromRows(<< << 2, 1 >>, << 0, 3 >> >>), g |-> 0],
     [variables |-> << "X2" >>,
      K |-> FromRows(<< << 2 >> >>), g |-> 16],
     [variables |-> << "X1", "X2" >>,
      K |-> FromRows(<< << 1, -1, 0 >>, << -1, 4, -2 >> >>), g |-> 0] >>

\* the numbers of an h argument (units of 1/4)
HData == { << 4, 16, -4 >>, << 20, -4 >>, << 8 >> }

HArgs == { HArg(shape, data) : shape \in {"flat", "col", "row"}, data \in HData }

\* constructor calls: every catalog entry with every h and no pdf, and the
\* docstring example with a pdf of the caller's
ConstructArgs ==
  { << c, hin, NoPdf >> : c \in 1..Len(Catalog), hin \in HArgs }
  \cup { << 1, HArg("col", << 4, 16, -4 >>), UserPdf >> }

\* the observed value of each variable (units of 1/4): X3 = 0.25 as in the
\* docstring, X1 = -0.5, X2 = 0.75
Obs == [v \in VarPool |-> CASE v = "X1" -> -2 [] v = "X2" -> 3 [] OTHER -> 1]

PairsOf(names) == [i \in 1..Len(names) |-> Item(names[i], Obs[names[i]], 2)]

\* the names of well-formed arguments: every sequence of at most two distinct
\* variables, all three in scope order and in another order, one name twice
ValueNames ==
  { << >> } \cup { << v >> : v \in VarPool }
  \cup { p \in VarPool \X VarPool : p[1] # p[2] }
  \cup { << "X1", "X2", "X3" >>, << "X3", "X1", "X2" >>, << "X2", "X2" >> }

\* lists of (variable, value) pairs
ListValues == { Values("list", PairsOf(names)) : names \in ValueNames }

\* other arguments: a tuple of pairs, an object that is no sequence, lists
\* with an element that is not a pair
OtherValues ==
  { Values("tuple", PairsOf(<< "X3" >>)),
    Values("other", << >>),
    Values("list", << Item("X1", 0, 0) >>),
    Values("list", << Item("X1", Obs["X1"], 3) >>),
    Values("list", << Item("X3", Obs["X3"], 2), Item("X2", Obs["X2"], 3) >>) }

ValuesArgs == ListValues \cup OtherValues

\* the number a caller writes into an array, and the cells written
WriteVals == { 9 }
WriteCells == { << 1, 1 >>, << 1, 2 >> }

(* ------------------------------- state --------------------------------- *)

VARIABLES
  heap,    \* the factor objects, by identity 1..Len(heap): variables, g, pdf,
           \* and the identities of the arrays bound to K and h
  arrs,    \* the numpy arrays that factors refer to, by identity
  calls,   \* calls made so far
  last,    \* the last call: its operation, arguments, exception and result
  prev     \* the heap, the arrays and `last` as they were before the last call,
           \* and the receiver of that earlier call as it was before it

vars == << heap, arrs, calls, last, prev >>

ArrIds == 1..(2 * MaxCalls)

Objs == 1..Len(heap)

\* the parameters of factor o as values
View(hp, ar, o) ==
  [variables |-> hp[o].variables, K |-> ar[hp[o].K], h |-> ar[hp[o].h], g |-> hp[o].g]

Val(o) == View(heap, arrs, o)

\* the arrays some factor of hp refers to
Refs(hp) == { hp[o].K : o \in DOMAIN hp } \cup { hp[o].h : o \in DOMAIN hp }

FreshId(used) == CHOOSE a \in ArrIds \ used : \A b \in ArrIds \ used : a <= b

Call(op, self, inplace, values, cat, hin, pdfin, err, ret) ==
  [op |-> op, self |-> self, inplace |-> inplace, values |-> values, cat |-> cat,
   hin |-> hin, pdfin |-> pdfin, err |-> err, ret |-> ret]

NoValues == Values("list", << >>)
NoH == HArg("flat", << >>)

\* a world is a heap with its arrays
World(hp, ar) == [heap |-> hp, arrs |-> ar]

\* binding variables, K, h, g and pdf of object t (a new object when t is
\* Len(heap) + 1); K and h are newly made arrays, and arrays that no factor
\* refers to any more are collected
Bind(w, t, variables, K, h, g, pdf) ==
  LET others == { w.heap[o].K : o \in DOMAIN w.heap \ {t} }
                  \cup { w.heap[o].h : o \in DOMAIN w.heap \ {t} }
      kid == FreshId(others)
      hid == FreshId(others \cup {kid})
      f == [variables |-> variables, K |-> kid, h |-> hid, g |-> g, pdf |-> pdf]
      hp == [o \in DOMAIN w.heap \cup {t} |-> IF o = t THEN f ELSE w.heap[o]]
  IN World(hp, [a \in Refs(hp) |-> IF a = kid THEN K ELSE IF a = hid THEN h ELSE w.arrs[a]])

\* the parameters of no factor
NoView == [variables |-> << >>, K |-> EmptyMat, h |-> EmptyMat, g |-> 0]

\* the receiver of the call `last` as it was before that call
LastPre ==
  IF last.self \in DOMAIN prev.heap THEN View(prev.heap, prev.arrs, last.self) ELSE NoView

Before(hp, ar, call, pre) == [heap |-> hp, arrs |-> ar, last |-> call, pre |-> pre]

(* ------------------------------ actions -------------------------------- *)

Init ==
  /\ heap = << >>
  /\ arrs = << >>
  /\ calls = 0
  /\ last = Call("none", 0, FALSE, NoValues, 0, NoH, NoPdf, NoErr, 0)
  /\ prev = Before(<< >>, << >>, Call("none", 0, FALSE, NoValues, 0, NoH, NoPdf, NoErr, 0),
                   NoView)

\* CanonicalFactor(variables, K, h, g, pdf).  A behaviour starts with one
\* constructor call; its other factors come from copy() and
\* reduce(inplace=False).  Factors of separate constructor calls share nothing.
Construct(c, hin, pdf) ==
  LET a == Catalog[c]
      err == InitErr(a.variables, a.K, hin)
      w == Bind(World(heap, arrs), 1, a.variables, a.K,
                ReshapeH(hin, Len(a.variables)), a.g, pdf)
  IN /\ calls = 0
     /\ heap' = IF err = NoErr THEN w.heap ELSE heap
     /\ arrs' = IF err = NoErr THEN w.arrs ELSE arrs
     /\ last' = Call("init", 0, FALSE, NoValues, c, hin, pdf, err,
                     IF err = NoErr THEN 1 ELSE 0)
     /\ calls' = calls + 1
     /\ prev' = Before(heap, arrs, last, LastPre)

\* the arrays of the copy, lines 141-142: self.K.copy() and self.h.copy()
CopyIds_Shared(w, o) == << w.heap[o].K, w.heap[o].h >>
CopyIds(w, o) ==
  LET kid == FreshId(Refs(w.heap))
  IN << kid, FreshId(Refs(w.heap) \cup {kid}) >>

\* the density of the copy, lines 142-144
CopyPdf(pdf) == pdf

\* self.copy(): the world with the copy as object Len(heap) + 1.  The
\* constructor gets the copied K and the copied h, an n-by-1 column.
CopyWorld(w, o) ==
  LET f == w.heap[o]
      ids == CopyIds(w, o)
      c == [variables |-> f.variables, K |-> ids[1], h |-> ids[2], g |-> f.g,
            pdf |-> CopyPdf(f.pdf)]
      hp == Append(w.heap, c)
  IN World(hp, [a \in Refs(hp) |-> IF a = ids[1] THEN w.arrs[f.K]
                                   ELSE IF a = ids[2] THEN w.arrs[f.h]
                                   ELSE w.arrs[a]])

\* what the constructor call inside copy() raises
CopyErr(w, o) ==
  LET v == View(w.heap, w.arrs, o)
  IN InitErr(v.variables, v.K, HArg("col", [i \in 1..v.h.r |-> v.h.e[i][1]]))

Copy(o) ==
  LET err == CopyErr(World(heap, arrs), o)
      w == CopyWorld(World(heap, arrs), o)
  IN /\ calls < MaxCalls
     /\ heap' = IF err = NoErr THEN w.heap ELSE heap
     /\ arrs' = IF err = NoErr THEN w.arrs ELSE arrs
     /\ last' = Call("copy", o, FALSE, NoValues, 0, NoH, NoPdf, err,
                     IF err = NoErr THEN Len(heap) + 1 ELSE 0)
     /\ calls' = calls + 1
     /\ prev' = Before(heap, arrs, last, LastPre)

\* to_joint_gaussian(), lines 170-173: np.linalg.inv(self.K) raises
\* LinAlgError for a singular K
JointErr(K) == IF Det(K) = 0 THEN Err("LinAlgError", 170) ELSE NoErr

\* the pdf after lines 93-94 of assignment()
AssignmentPdf(o, v, pdf) ==
  IF pdf = NoPdf THEN JgdPdf(o, v.variables, v.K, v.h, v.g) ELSE pdf

\* assignment(*args): binds the density when none is bound, then evaluates it
\* (the value it returns is not part of the state)
Assignment(o) ==
  LET err == IF heap[o].pdf = NoPdf THEN JointErr(Val(o).K) ELSE NoErr
  IN /\ calls < MaxCalls
     /\ heap' = IF err = NoErr
                THEN [heap EXCEPT ![o].pdf = AssignmentPdf(o, Val(o), heap[o].pdf)]
                ELSE heap
     /\ last' = Call("assignment", o, FALSE, NoValues, 0, NoH, NoPdf, err, 0)
     /\ calls' = calls + 1
     /\ prev' = Before(heap, arrs, last, LastPre)
     /\ UNCHANGED arrs

\* phi, line 247: the object reduce() writes to, n being the identity of a copy
ReduceTarget_Self(o, n, inplace) == o
ReduceTarget(o, n, inplace) == IF inplace THEN o ELSE n

\* line 272
ReducePdf_Kept(pdf) == pdf
ReducePdf(pdf) == NoPdf

\* the world a raising reduce() on o leaves behind: the statements that
\* raise, lines 243-255, come before the first assignment to phi, line 268
ReduceRaised_PdfCleared(w, o) == World([w.heap EXCEPT ![o].pdf = NoPdf], w.arrs)
ReduceRaised(w, o) == w

\* reduce(values, inplace) for a call that raises nothing: lines 247-272
ReduceWorld(w, o, values, inplace) ==
  LET self == View(w.heap, w.arrs, o)
      w1 == IF inplace THEN w ELSE CopyWorld(w, o)
      phi == ReduceTarget(o, Len(w.heap) + 1, inplace)
      new == ReduceOf(self, values)
  IN Bind(w1, phi, new.variables, new.K, new.h, new.g, ReducePdf(w1.heap[phi].pdf))

Reduce(o, values, inplace) ==
  LET err == ReduceErr(heap[o].variables, values)
      w == ReduceWorld(World(heap, arrs), o, values, inplace)
  IN /\ calls < MaxCalls
     /\ heap' = IF err = NoErr THEN w.heap ELSE ReduceRaised(World(heap, arrs), o).heap
     /\ arrs' = IF err = NoErr THEN w.arrs ELSE ReduceRaised(World(heap, arrs), o).arrs
     /\ last' = Call("reduce", o, inplace, values, 0, NoH, NoPdf, err,
                     IF err = NoErr /\ ~inplace THEN Len(heap) + 1 ELSE 0)
     /\ calls' = calls + 1
     /\ prev' = Before(heap, arrs, last, LastPre)

\* a caller's phi.K[i, j] = v, a numpy element assignment
WriteK(o, i, j, v) ==
  /\ calls < MaxCalls
  /\ i \in 1..Val(o).K.r /\ j \in 1..Val(o).K.c
  /\ arrs' = [arrs EXCEPT ![heap[o].K] = SetEntry(@, i, j, v)]
  /\ calls' = calls + 1
  /\ prev' = Before(heap, arrs, last, LastPre)
  /\ last' = Call("setK", o, FALSE, NoValues, 0, NoH, NoPdf, NoErr, 0)
  /\ UNCHANGED heap

\* a caller's phi.h[i, 0] = v
WriteH(o, i, v) ==
  /\ calls < MaxCalls
  /\ i \in 1..Val(o).h.r
  /\ arrs' = [arrs EXCEPT ![heap[o].h] = SetEntry(@, i, 1, v)]
  /\ calls' = calls + 1
  /\ prev' = Before(heap, arrs, last, LastPre)
  /\ last' = Call("seth", o, FALSE, NoValues, 0, NoH, NoPdf, NoErr, 0)
  /\ UNCHANGED heap

DoConstruct == \E a \in ConstructArgs : Construct(a[1], a[2], a[3])
DoCopy == \E o \in Objs : Copy(o)
DoAssignment == \E o \in Objs : Assignment(o)
DoReduce == \E o \in Objs, values \in ValuesArgs, inplace \in BOOLEAN : Reduce(o, values, inplace)
DoWriteK == \E o \in Objs, c \in WriteCells, v \in WriteVals : WriteK(o, c[1], c[2], v)
DoWriteH == \E o \in Objs, c \in WriteCells, v \in WriteVals : WriteH(o, c[2], v)

Next == DoConstruct \/ DoCopy \/ DoAssignment \/ DoReduce \/ DoWriteK \/ DoWriteH

Spec == Init /\ [][Next]_vars

\* the calls of the class alone: no caller writes into the arrays
NextCalls == DoConstruct \/ DoCopy \/ DoAssignment \/ DoReduce

SpecCalls == Init /\ [][NextCalls]_vars

(* ------------------------------ claims --------------------------------- *)

\* the object the last call wrote to
Target == IF last.op = "reduce" /\ ~last.inplace THEN last.ret ELSE last.self

\* the receiver of the last call as it was before the call
PreSelf == View(prev.heap, prev.arrs, last.self)

ReduceOk == last.op = "reduce" /\ last.err = NoErr

\* a list of pairs
ListOfPairs(values) == values.kind = "list" /\ IsPairs(values)

\* a list of pairs that names variables of the scope, each at most once
NamesDistinct(values, scope) ==
  /\ ListOfPairs(values)
  /\ \A i \in 1..Len(values.items) : Has(scope, values.items[i].var)
  /\ \A i, j \in 1..Len(values.items) : i # j => values.items[i].var # values.items[j].var

\* ... and names them in the order of the scope
InScopeOrder(values, scope) ==
  /\ NamesDistinct(values, scope)
  /\ \A i, j \in 1..Len(values.items) :
       i < j => Index(scope, values.items[i].var) < Index(scope, values.items[j].var)

\* the pairs of `values` sorted by the positions of their variables in the scope
SortByScope(values, scope) ==
  LET s == Sorted([i \in 1..Len(values.items) |-> << Index(scope, values.items[i].var), i >>])
  IN Values(values.kind, [k \in 1..Len(s) |-> values.items[s[k][2]]])

\* C1: for a factor and distinct scope variables with observed values, reduce()
\* with the pairs in any order succeeds and gives the scope, K', h' and g' that
\* reduce() gives with the pairs sorted by the variables' positions in the scope.
C1_OrderIndependent ==
  (last.op = "reduce" /\ NamesDistinct(last.values, PreSelf.variables))
    => /\ last.err = NoErr
       /\ Val(Target) = ReduceOf(PreSelf, SortByScope(last.values, PreSelf.variables))

\* the case of C1: a successful reduce() whose pairs are not in scope order
C1_Permuted ==
  /\ ReduceOk
  /\ NamesDistinct(last.values, PreSelf.variables)
  /\ ~InScopeOrder(last.values, PreSelf.variables)

\* The result C2 states, written out entry by entry.  kept and red are the
\* positions of the kept and of the reduced variables in the scope, ascending;
\* y[m] is the value observed for the variable at red[m].
Positions(scope, S) == SelectSeq([i \in 1..Len(scope) |-> i], LAMBDA i : scope[i] \in S)

Claimed(v, values) ==
  LET named == { values.items[i].var : i \in 1..Len(values.items) }
      kept == Positions(v.variables, VarPool \ named)
      red == Positions(v.variables, named)
      y == [m \in 1..Len(red) |->
              (CHOOSE it \in { values.items[i] : i \in 1..Len(values.items) } :
                 it.var = v.variables[red[m]]).val]
  IN [variables |-> [i \in 1..Len(kept) |-> v.variables[kept[i]]],
      K |-> [r |-> Len(kept), c |-> Len(kept),
             e |-> [i \in 1..Len(kept) |-> [j \in 1..Len(kept) |-> v.K.e[kept[i]][kept[j]]]]],
      h |-> [r |-> Len(kept), c |-> 1,
             e |-> [i \in 1..Len(kept) |->
                      << v.h.e[kept[i]][1]
                         - SumTo([m \in 1..Len(red) |-> v.K.e[kept[i]][red[m]] * y[m]],
                                 Len(red)) >>]],
      g |-> v.g
            + 2 * SumTo([m \in 1..Len(red) |-> v.h.e[red[m]][1] * y[m]], Len(red))
            - SumTo([m \in 1..Len(red) |->
                       SumTo([n \in 1..Len(red) |-> y[m] * v.K.e[red[m]][red[n]] * y[n]],
                             Len(red))], Len(red))]

\* the factor of the reduce() docstring: h = [1, 4, -1], g = -2
DocExample ==
  [variables |-> << "X1", "X2", "X3" >>,
   K |-> FromRows(<< << 1, -1, 0 >>, << -1, 4, -2 >>, << 0, -2, 4 >> >>),
   h |-> FromRows(<< << 4 >>, << 16 >>, << -4 >> >>), g |-> -64]

LastN == Len(Catalog[last.cat].variables)

\* the K argument of the constructor call `last`
LastK == Catalog[last.cat].K

\* C3: constructing with n variables, an h of length n and a K whose shape is
\* not (n, n) fails with a ValueError, the error kind of an h of the wrong
\* length, and with no other kind of error.
C3_KShapeValueError ==
  (last.op = "init" /\ HLen(last.hin) = LastN /\ HSize(last.hin) = LastN
     /\ << LastK.r, LastK.c >> # << LastN, LastN >>)
    => last.err.type = "ValueError"

\* the case of C3: a constructor call with a good h and a K of the wrong shape
C3_BadKShape ==
  /\ last.op = "init" /\ HLen(last.hin) = LastN /\ HSize(last.hin) = LastN
  /\ << LastK.r, LastK.c >> # << LastN, LastN >>
  /\ last.err # NoErr /\ heap = << >>

\* C4: construction succeeds and stores h as an n-by-1 column for every h that
\* carries n numbers, whether flat, an n-by-1 column or a 1-by-n row.
C4_AnyShapeAccepted ==
  (last.op = "init" /\ HSize(last.hin) = LastN
     /\ << LastK.r, LastK.c >> = << LastN, LastN >>)
    => /\ last.err = NoErr
       /\ Len(heap) = 1
       /\ Val(1).h = [r |-> LastN, c |-> 1, e |-> [i \in 1..LastN |-> << last.hin.data[i] >>]]

\* the case of C4: a 1-by-n row for more than one variable
C4_RowRejected ==
  /\ last.op = "init" /\ last.hin.shape = "row" /\ HSize(last.hin) = LastN /\ LastN > 1
  /\ << LastK.r, LastK.c >> = << LastN, LastN >>
  /\ last.err = Err("ValueError", 78)

\* C5: reduce(values, inplace=False) returns a new factor holding the reduced
\* parameters and leaves the receiver's scope, K, h, g and density as they
\* were; reduce(values, inplace=True) returns None and the receiver holds the
\* reduced parameters; both hold the same (scope', K', h', g'), the one that
\* lines 268-271 compute from the receiver and the values.
C5_InplaceModes ==
  ReduceOk =>
    IF last.inplace
    THEN /\ last.ret = 0
         /\ Len(heap) = Len(prev.heap)
         /\ Val(last.self) = ReduceOf(PreSelf, last.values)
    ELSE /\ last.ret = Len(prev.heap) + 1
         /\ Len(heap) = Len(prev.heap) + 1
         /\ Val(last.ret) = ReduceOf(PreSelf, last.values)
         /\ heap[last.self] = prev.heap[last.self]
         /\ Val(last.self) = PreSelf

\* the case of C5: a reduce(inplace=False) that removes a variable from a
\* receiver with a bound density
C5_NewFromBound ==
  /\ ReduceOk /\ ~last.inplace
  /\ Len(last.values.items) > 0
  /\ prev.heap[last.self].pdf.kind = "jgd"
  /\ heap[last.self].pdf.kind = "jgd"

\* C6: over constructor, assignment(), copy() and reduce() calls, a density
\* appears on a factor only by a successful assignment() on it, by copy() of a
\* factor that has one, or as the constructor's argument; it is present after
\* a successful assignment(); it is absent on the target of a successful
\* reduce(); and a materialised density was computed from the scope, K, h and
\* g that its factor holds.
C6_DensityFresh ==
  /\ \A o \in Objs :
       (heap[o].pdf # NoPdf /\ (o \notin DOMAIN prev.heap \/ prev.heap[o].pdf = NoPdf))
         => \/ last.op = "assignment" /\ last.self = o /\ last.err = NoErr
            \/ last.op = "copy" /\ last.ret = o /\ heap[o].pdf = prev.heap[last.self].pdf
            \/ last.op = "init" /\ last.ret = o /\ heap[o].pdf = last.pdfin
  /\ (last.op = "assignment" /\ last.err = NoErr) => heap[last.self].pdf # NoPdf
  /\ ReduceOk => heap[Target].pdf = NoPdf
  /\ \A o \in Objs :
       heap[o].pdf.kind = "jgd"
         => [variables |-> heap[o].pdf.variables, K |-> heap[o].pdf.K,
             h |-> heap[o].pdf.h, g |-> heap[o].pdf.g] = Val(o)

\* the case of C6: a reduce() that removes a variable from a factor whose
\* density assignment() had materialised
C6_ReducedAfterAssignment ==
  /\ ReduceOk /\ last.inplace
  /\ Len(last.values.items) > 0
  /\ prev.last.op = "assignment" /\ prev.last.self = last.self
  /\ prev.heap[last.self].pdf.kind = "jgd"
  /\ heap[last.self].pdf = NoPdf

\* C7: copy() returns a new factor with the scope, g, K, h and density of the
\* original, whose K and h are other arrays than the original's; every call
\* changes the parameters of its target only, so an element write to the K or
\* h of a copy or an in-place reduce of it leaves the original unchanged, and
\* the other way round; no two factors share an array.
C7_CopyIndependent ==
  /\ (last.op = "copy" /\ last.err = NoErr)
       => /\ last.ret = Len(prev.heap) + 1
          /\ Val(last.ret) = Val(last.self)
          /\ heap[last.ret].pdf = heap[last.self].pdf
          /\ heap[last.ret].K # heap[last.self].K
          /\ heap[last.ret].h # heap[last.self].h
  /\ \A o \in DOMAIN prev.heap :
       o # Target => Val(o) = View(prev.heap, prev.arrs, o)
  /\ \A o, p \in Objs :
       o # p => {heap[o].K, heap[o].h} \cap {heap[p].K, heap[p].h} = {}

\* the case of C7: an element write to the K of the copy that copy() returned
C7_CopyWritten ==
  /\ prev.last.op = "copy" /\ prev.last.err = NoErr
  /\ last.op = "setK" /\ last.self = prev.last.ret
  /\ Val(last.self).K # Val(prev.last.self).K
  /\ Val(last.self).variables = Val(prev.last.self).variables

\* C8: reduce() with a list of pairs that names a variable outside the
\* receiver's scope fails with the lookup failure of list.index, a ValueError
\* raised at line 255, and leaves every factor and array as it was, in place
\* or not, also when other named variables are in the scope.
C8_LookupFailure ==
  (last.op = "reduce" /\ ListOfPairs(last.values)
     /\ \E i \in 1..Len(last.values.items) :
          ~Has(PreSelf.variables, last.values.items[i].var))
    => /\ last.err = Err("ValueError", 255)
       /\ last.ret = 0
       /\ heap = prev.heap
       /\ arrs = prev.arrs

\* the case of C8: an in-place reduce() that names a variable of the scope and
\* one outside it, on a factor with a bound density
C8_MixedNames ==
  /\ last.op = "reduce" /\ last.inplace /\ ListOfPairs(last.values)
  /\ \E i \in 1..Len(last.values.items) : ~Has(PreSelf.variables, last.values.items[i].var)
  /\ \E i \in 1..Len(last.values.items) : Has(PreSelf.variables, last.values.items[i].var)
  /\ prev.heap[last.self].pdf # NoPdf
  /\ last.err # NoErr

\* an ordered collection of (variable, value) pairs
CollectionOfPairs(values) == values.kind \in {"list", "tuple"} /\ IsPairs(values)

\* C9: reduce() fails with a TypeError exactly when `values` is not an ordered
\* collection of pairs; a malformed argument leaves the receiver unchanged, and
\* a list or a tuple of pairs over scope variables is accepted.
C9_TypeErrorIffMalformed ==
  last.op = "reduce"
    => /\ (last.err.type = "TypeError") <=> ~CollectionOfPairs(last.values)
       /\ ~CollectionOfPairs(last.values) => heap = prev.heap /\ arrs = prev.arrs
       /\ (CollectionOfPairs(last.values)
             /\ \A i \in 1..Len(last.values.items) :
                  Has(PreSelf.variables, last.values.items[i].var))
            => last.err = NoErr

\* the case of C9: a tuple of pairs over scope variables
C9_TupleRejected ==
  /\ last.op = "reduce" /\ last.values.kind = "tuple" /\ IsPairs(last.values)
  /\ \A i \in 1..Len(last.values.items) : Has(PreSelf.variables, last.values.items[i].var)
  /\ last.err = Err("TypeError", 244)

\* the arrays of factor o agree with its scope: K is n-by-n and h is n-by-1
ShapeOk(o) ==
  LET v == Val(o)
      n == Len(v.variables)
  IN /\ v.K.r = n /\ v.K.c = n /\ v.h.r = n /\ v.h.c = 1
     /\ DOMAIN v.K.e = 1..n /\ \A i \in 1..n : DOMAIN v.K.e[i] = 1..n
     /\ DOMAIN v.h.e = 1..n /\ \A i \in 1..n : DOMAIN v.h.e[i] = 1..1

\* C10: every live factor has len(scope) = rows(K) = cols(K) = rows(h) and an h
\* of one column; a constructor call whose h has a length or a size other than
\* len(scope) produces no factor.
C10_ShapeInvariant ==
  /\ \A o \in Objs : ShapeOk(o)
  /\ (last.op = "init" /\ (HLen(last.hin) # LastN \/ HSize(last.hin) # LastN))
       => last.err # NoErr /\ last.ret = 0 /\ heap = << >>

\* the case of C10: a factor whose whole scope of three variables was reduced,
\* in an order other than the scope's
C10_EmptyFactor ==
  /\ ReduceOk
  /\ Len(PreSelf.variables) = 3
  /\ ~InScopeOrder(last.values, PreSelf.variables)
  /\ Val(Target).variables = << >>
  /\ Val(Target).K.r = 0

\* the last two calls are successful reduce() calls, the second on the result
\* of the first, each with its pairs in scope order: Orig is the factor before
\* the first, FirstValues (A) and last.values (B) are the two arguments
TwoReductions ==
  /\ ReduceOk
  /\ prev.last.op = "reduce" /\ prev.last.err = NoErr
  /\ last.self = (IF prev.last.inplace THEN prev.last.self ELSE prev.last.ret)
  /\ InScopeOrder(prev.last.values, prev.pre.variables)
  /\ InScopeOrder(last.values, PreSelf.variables)

Orig == prev.pre

FirstValues == prev.last.values

\* the pairs of both calls as one list in the order of the original scope
JointValues ==
  SortByScope(Values("list", FirstValues.items \o last.values.items), Orig.variables)

Symmetric(K) == \A i, j \in 1..K.r : K.e[i][j] = K.e[j][i]

\* the factor with the K that is not symmetric: scope [X3, X1], h = [5, -1], g = 0
NonSymExample ==
  [variables |-> << "X3", "X1" >>, K |-> FromRows(<< << 2, 1 >>, << 0, 3 >> >>),
   h |-> FromRows(<< << 20 >>, << -4 >> >>), g |-> 0]

\* C11: reducing on A and then on B gives the scope', K' and h' of reducing on
\* B and then on A and of one reduce() on A and B together (pairs in scope
\* order), for every K; for a symmetric K it gives their g' too.  For a K that
\* is not symmetric g' can differ: K = [[2, 1], [0, 3]] over [X3, X1] with
\* h = [5, -1], g = 0 reduced on X3 = 0.25 and then on X1 = -0.5 gives
\* g' = 1.3125 (42/32), on X1 and then on X3 g' = 1.4375 (46/32), on both at
\* once g' = 1.375 (44/32).
C11_ReductionComposes ==
  TwoReductions =>
    LET seq == Val(Target)
        joint == ReduceOf(Orig, JointValues)
        swapped == ReduceOf(ReduceOf(Orig, last.values), FirstValues)
    IN /\ seq.variables = joint.variables /\ seq.K = joint.K /\ seq.h = joint.h
       /\ seq.variables = swapped.variables /\ seq.K = swapped.K /\ seq.h = swapped.h
       /\ Symmetric(Orig.K) => seq.g = joint.g /\ seq.g = swapped.g
       /\ (Orig = NonSymExample
             /\ FirstValues = Values("list", << Item("X3", 1, 2) >>)
             /\ last.values = Values("list", << Item("X1", -2, 2) >>))
            => seq.g = 42 /\ swapped.g = 46 /\ joint.g = 44

\* the case of C11: two in-place reductions of the docstring factor, each of
\* one variable, the two variables coupled in K
C11_TwoInPlace ==
  /\ TwoReductions
  /\ prev.last.inplace /\ last.inplace
  /\ Orig = DocExample
  /\ Symmetric(Orig.K)
  /\ FirstValues = Values("list", << Item("X3", 1, 2) >>)
  /\ last.values = Values("list", << Item("X2", 3, 2) >>)
  /\ Val(Target).variables = << "X1" >>

\* the K that is not symmetric, reduced on X3 and then on X1
C11_NonSymmetricDiffers ==
  /\ TwoReductions
  /\ Orig = NonSymExample
  /\ ~Symmetric(Orig.K)
  /\ Val(Target).g # ReduceOf(Orig, JointValues).g

====
